---- MODULE Spec2Model ----
(***************************************************************************)
(* JASSv2: the Elias-delta integer codec (compress_integer_elias_delta)    *)
(* and the mean-reciprocal-rank metric (evaluate_mean_reciprocal_rank).    *)
(*                                                                         *)
(* A 64-bit machine word is the set of its set bit positions, a subset of  *)
(* 0..63 (bit 0 is the least significant bit).  Byte-addressed memory is   *)
(* the set of its set bit positions, bit p living in byte p \div 8 at      *)
(* position p % 8 (little-endian words, LSB-first bits).                   *)
(***************************************************************************)
EXTENDS Integers, Sequences, FiniteSets, TLC

(***************************************************************************)
(* Bounds of the model.                                                    *)
(***************************************************************************)
\* longest source sequence handed to encode
MaxLen == 3
\* the small destination capacity (bytes) tried beside the ample one
CapSmall == 1

(***************************************************************************)
(* 64-bit words.                                                           *)
(***************************************************************************)
WordBits == 64

BitPos == 0 .. (WordBits - 1)

Pow2(b) == 2 ^ b

Min(S) == CHOOSE m \in S : \A x \in S : m <= x

Max(S) == CHOOSE m \in S : \A x \in S : x <= m

\* a word whose value is below 2^30
Small(v) == \A b \in v : b < 30

\* the value of a small word, and the word of a value below 2^31
RECURSIVE ToNat(_)
ToNat(v) == IF v = {} THEN 0 ELSE LET m == Min(v) IN Pow2(m) + ToNat(v \ {m})

FromNat(n) == { b \in 0 .. 30 : (n \div Pow2(b)) % 2 = 1 }

\* v << k and v >> k for a shift count 0 <= k < 64
Shl(v, k) == { b + k : b \in { x \in v : x + k < WordBits } }

Shr(v, k) == { b - k : b \in { x \in v : x >= k } }

\* the low w bits of a word, as an integer
LowBits(v, w) == ToNat({ b \in v : b < w })

(***************************************************************************)
(* uint64_t counters (bits_used, unary, binary): the integer itself while  *)
(* it is below 2^30, the 64-bit word otherwise.                            *)
(***************************************************************************)
Nat64(n) == [ big |-> FALSE, n |-> n ]

ToNum(v) == IF Small(v) THEN Nat64(ToNat(v)) ELSE [ big |-> TRUE, w |-> v ]

ToWord(x) == IF x.big THEN x.w ELSE FromNat(x.n)

\* a + b + carry on words (modulo 2^64), bit by bit from bit i up
RECURSIVE Ripple(_, _, _, _)
Ripple(a, b, i, carry) ==
  IF i = WordBits THEN {}
  ELSE LET ai == i \in a
           bi == i \in b
       IN  (IF (ai # bi) # carry THEN {i} ELSE {})
             \cup Ripple(a, b, i + 1, (ai /\ bi) \/ (carry /\ (ai \/ bi)))

AddWord(a, b) == Ripple(a, b, 0, FALSE)

\* uint64_t a + b (modulo 2^64)
Add64(a, b) ==
  IF ~a.big /\ ~b.big
    THEN ToNum(FromNat(a.n + b.n))
    ELSE ToNum(AddWord(ToWord(a), ToWord(b)))

\* uint64_t a - b (modulo 2^64): a + ~b + 1
Sub64(a, b) ==
  IF ~a.big /\ ~b.big /\ a.n >= b.n
    THEN Nat64(a.n - b.n)
    ELSE IF ~a.big /\ ~b.big
      THEN [ big |-> TRUE, w |-> BitPos \ FromNat(b.n - a.n - 1) ]
      ELSE ToNum(Ripple(ToWord(a), BitPos \ ToWord(b), 0, TRUE))

\* uint64_t a > n, for an integer n below 2^30
Gt64(a, n) == a.big \/ a.n > n

\* the low w bits of a counter, as an integer
LowOf(c, w) == IF c.big THEN LowBits(c.w, w) ELSE c.n % Pow2(w)

\* the outcomes of a shift whose count is not below the operand's width
\* (undefined behaviour): the count masked to the width, or all bits lost
UBChoices == {"mask", "zero"}

\* a shift count that is not below the width w
Undefined(c, w) == c.big \/ c.n >= w

\* v << c and v >> c for a 64-bit count c
Shl64(v, c, ub) ==
  IF ~Undefined(c, WordBits) THEN Shl(v, c.n)
  ELSE IF ub = "zero" THEN {} ELSE Shl(v, LowOf(c, 6))

Shr64(v, c, ub) ==
  IF ~Undefined(c, WordBits) THEN Shr(v, c.n)
  ELSE IF ub = "zero" THEN {} ELSE Shr(v, LowOf(c, 6))

\* (1 << c) with an int 1, then converted to uint64_t for the OR: bit 31 is
\* the sign bit and is extended; a count of 32 or more is undefined
IntOne(k) == IF k = 31 THEN 31 .. 63 ELSE {k}

Shl32One(c, ub) ==
  IF ~Undefined(c, 32) THEN IntOne(c.n)
  ELSE IF ub = "zero" THEN {} ELSE IntOne(LowOf(c, 5))

\* _tzcnt_u64: the number of trailing zero bits, 64 for a zero word
tzcnt(v) == IF v = {} THEN WordBits ELSE Min(v)

\* _bextr_u64(v, 0, len): the low len bits of v; the instruction reads only
\* the low 8 bits of len
bextr(v, len) == LET l == LowOf(len, 8) IN { b \in v : b < l }

(***************************************************************************)
(* maths::floor_log2                                                       *)
(***************************************************************************)
\* the lookup table floor_log2_answer[0..255] (maths.cpp)
RECURSIVE floor_log2_answer(_)
floor_log2_answer(i) == IF i <= 1 THEN 0 ELSE 1 + floor_log2_answer(i \div 2)

RECURSIVE floor_log2_loop(_, _)
floor_log2_loop(x, mult) ==
  LET sum  == floor_log2_answer(LowBits(x, 8)) + mult
      rest == Shr(x, 8)
  IN  IF rest # {} THEN floor_log2_loop(rest, mult + 8) ELSE sum

floor_log2(x) == floor_log2_loop(x, 0)

(***************************************************************************)
(* Inputs.                                                                 *)
(***************************************************************************)
\* a 31-bit integer, a 39-bit codeword
Int31Bit == {0, 5, 17, 29, 30}

\* a 53-bit integer, a 63-bit codeword
Int53Bit == {1, 20, 40, 52}

\* 2^63 - 1, the largest integer of the domain: a 73-bit codeword
Int63Bit == 0 .. 62

\* the integers handed to encode: 0 (outside the domain), 1, 3 and the above
Values == { {}, {0}, {0, 1}, Int31Bit, Int53Bit, Int63Bit }

RECURSIVE SeqsOfLen(_, _)
SeqsOfLen(S, n) ==
  IF n = 0 THEN { << >> }
  ELSE { Append(s, x) : s \in SeqsOfLen(S, n - 1), x \in S }

SeqsUpTo(S, n) == UNION { SeqsOfLen(S, m) : m \in 0 .. n }

\* an ample destination capacity (bytes): whole words, two words past the
\* longest stream of MaxLen integers
CapAmple == 8 * (((2 * 5 + 63) * MaxLen) \div 64 + 3)

Capacities == { CapSmall, CapAmple }

\* a 23-bit integer, a 31-bit codeword: two of them and a 1 fill 63 bits
Int23Bit == {0, 9, 15, 22}

\* integers below 2^31, for the streams that fit in one 64-bit word
WordValues == { {0}, {0, 1}, Int23Bit, Int31Bit }

\* a destination of exactly one 64-bit word (bytes)
CapWord == WordBits \div 8

WordCapacities == { CapWord, CapAmple }

\* the calls made: a source sequence and a destination capacity
Inputs ==
  (SeqsUpTo(Values, MaxLen) \X Capacities)
    \cup (SeqsUpTo(WordValues, MaxLen) \X WordCapacities)

(***************************************************************************)
(* State.                                                                  *)
(***************************************************************************)
VARIABLES
  pc,                     \* "start", "encode", "encoded", "decode", "done"
  sequence,               \* encode: the source array (source, source_integers)
  encoded_buffer_length,  \* encode: the destination capacity in bytes
  encoded,                \* memory from the destination buffer's first byte on
  value_at,               \* encode: index of the loop pointer `value` (from 1)
  into,                   \* encode: bit position to write into
  written,                \* encode: the byte indexes it has read or written
  encoded_length,         \* encode's return value
  integers_to_decode,     \* decode: the requested count
  source_length,          \* decode: the source length in bytes
  source,                 \* decode: index of the word `source` points to
  value,                  \* decode: the current word, shifted
  bits_used,              \* decode: bits consumed of the current word
  unary,                  \* decode: the unary count
  decoded,                \* decode: index of the slot `decoded` points to
  out,                    \* decode: the destination array, slot -> integer
  stores,                 \* decode: the slot of each assignment to *decoded, in order
  fetched,                \* decode: the word indexes fetched, in order
  garbage,                \* what memory outside the buffer reads as, once read
  build,                  \* what an undefined shift does, once one is executed
  calls,                  \* concurrent decode calls: thread -> its locals
  accessed,               \* thread -> the memory locations it has read, written
  compute,                \* evaluate_mean_reciprocal_rank::compute's call
  total                   \* decode: the function-static counter

vars == << pc, sequence, encoded_buffer_length, encoded, value_at, into, written,
           encoded_length, integers_to_decode, source_length, source, value,
           bits_used, unary, decoded, out, stores, fetched, garbage, build,
           calls, accessed, compute, total >>

encVars == << value_at, into, written, encoded_length >>

decVars == << integers_to_decode, source_length, source, value, bits_used, unary,
              decoded, out, stores, fetched, garbage, build, total >>

\* the codec's single call sequence: encode, then decode
codecVars == << pc, sequence, encoded_buffer_length, encoded, value_at, into,
                written, encoded_length, integers_to_decode, source_length, source,
                value, bits_used, unary, decoded, out, stores, fetched >>

\* the two concurrent calls
threadVars == << calls, accessed >>

\* the bit positions of bytes lo .. hi - 1
BytesBits(lo, hi) == (8 * lo) .. (8 * hi - 1)

\* no call of the codec made yet, on a given sequence and capacity
CodecStart(S, cap) ==
  /\ pc = "start"
  /\ sequence = S
  /\ encoded_buffer_length = cap
  \* the destination holds whatever the caller left in it
  /\ encoded = BytesBits(0, cap)
  /\ value_at = 1
  /\ into = 0
  /\ written = {}
  /\ encoded_length = 0
  /\ integers_to_decode = 0
  /\ source_length = 0
  /\ source = 0
  /\ value = {}
  /\ bits_used = Nat64(0)
  /\ unary = Nat64(0)
  /\ decoded = 0
  /\ out = << >>
  /\ stores = << >>
  /\ fetched = << >>
  /\ garbage = "unread"
  /\ build = "unmet"
  /\ total = 0

\* no concurrent calls, no call of compute
NoThreads == calls = << >> /\ accessed = << >>

NoCompute == compute = [ pc |-> "idle" ]

Init ==
  /\ \E i \in Inputs : CodecStart(i[1], i[2])
  /\ NoThreads
  /\ NoCompute

(***************************************************************************)
(* compress_integer_elias_delta::encode                                    *)
(***************************************************************************)
\* memset(encoded, 0, encoded_buffer_length)
EncodeBegin ==
  /\ pc = "start"
  /\ encoded' = encoded \ BytesBits(0, encoded_buffer_length)
  /\ written' = 0 .. (encoded_buffer_length - 1)
  /\ into' = 0
  /\ value_at' = 1
  /\ pc' = "encode"
  /\ UNCHANGED << sequence, encoded_buffer_length, encoded_length >>
  /\ UNCHANGED decVars
  /\ UNCHANGED << calls, accessed, compute >>

\* n = floor_log2(*value) + 1
BitLength(v) == floor_log2(v) + 1

\* ((n & ~(1 << unary)) << 1) + 1
ZigZag(n, un) == FromNat(ToNat(Shl(FromNat(n) \ {un}, 1)) + 1)

\* *value & ~(1ULL << (n - 1))
ValueField(v, n) == v \ {n - 1}

\* pattern = field << (into % 8)
Pattern(field, at) == Shl(field, at % 8)

\* *reinterpret_cast<uint64_t *>(encoded + (into / 8)) |= pattern
OrWrite(mem, at, pattern) == mem \cup { 8 * (at \div 8) + b : b \in pattern }

\* the bytes of the 64-bit word at encoded + (into / 8)
WordBytes(at) == (at \div 8) .. (at \div 8 + 7)

\* into += unary
IntoAfterUnary(at, un) == at + un

IntoAfterLengthShort(at, un) == at + un

\* into += unary + 1
IntoAfterLength(at, un) == at + un + 1

\* into += n - 1
IntoAfterValue(at, n) == at + n - 1

\* the body of the loop, lines 36-75, for the integer v: the cursor, the
\* memory and the bytes accessed after it
EncodeBody(v, at, mem) ==
  LET n     == BitLength(v)
      un    == floor_log2(FromNat(n))
      into1 == IntoAfterUnary(at, un)
      into2 == IntoAfterLength(into1, un)
      mem1  == OrWrite(mem, into1, Pattern(ZigZag(n, un), into1))
  IN  [ into |-> IntoAfterValue(into2, n),
        encoded |-> OrWrite(mem1, into2, Pattern(ValueField(v, n), into2)),
        accessed |-> WordBytes(into1) \cup WordBytes(into2) ]

\* one iteration of the loop
EncodeInteger ==
  /\ pc = "encode"
  /\ value_at <= Len(sequence)
  /\ \E r \in { EncodeBody(sequence[value_at], into, encoded) } :
       /\ encoded' = r.encoded
       /\ written' = written \cup r.accessed
       /\ into' = r.into
  /\ value_at' = value_at + 1
  /\ UNCHANGED << pc, sequence, encoded_buffer_length, encoded_length >>
  /\ UNCHANGED decVars
  /\ UNCHANGED << calls, accessed, compute >>

\* return ((into + 7) / 8)
BytesUsed(at) == (at + 7) \div 8

EncodeReturn ==
  /\ pc = "encode"
  /\ value_at > Len(sequence)
  /\ encoded_length' = BytesUsed(into)
  /\ pc' = "encoded"
  /\ UNCHANGED << sequence, encoded_buffer_length, encoded, value_at, into, written >>
  /\ UNCHANGED decVars
  /\ UNCHANGED << calls, accessed, compute >>

(***************************************************************************)
(* compress_integer_elias_delta::decode                                    *)
(***************************************************************************)
\* what the bits of memory outside the allocated buffer read as: the read is
\* outside any object, so its bits are unknown (all clear, or all set)
Garbage == {"clear", "set"}

\* the 64-bit word at source[at], read from memory mem of cap allocated bytes
ReadWord(mem, cap, at, g) ==
  { b \in BitPos : \/ (WordBits * at + b) \in mem
                   \/ (WordBits * at + b >= 8 * cap /\ g = "set") }

\* the word at source[at] lies inside the cap allocated bytes
Allocated(at, cap) == 8 * (at + 1) <= cap

\* the width of compress_integer::integer (compress_integer.h): the data model's
\* integers reach 2^63 - 1, so a stored integer keeps 64 bits
IntegerBits == 64

\* a uint64_t converted to integer for the store into *decoded
Integer(x) == { b \in x : b < IntegerBits }

\* the constants 64 and 1 as uint64_t
N64 == Nat64(WordBits)

One == Nat64(1)

\* step 1, lines 107-120: the width of the width
ScanUnary(val, used, at, mem, cap, g, ub) ==
  IF val = {}
    THEN LET un0   == Sub64(N64, used)
             word  == ReadWord(mem, cap, at, g)
             used1 == Nat64(tzcnt(word))
         IN  [ value |-> Shr64(word, used1, ub), bits_used |-> used1,
               unary |-> Add64(un0, used1), source |-> at + 1,
               fetched |-> << at >>, undefined |-> Undefined(used1, WordBits) ]
    ELSE LET un == Nat64(tzcnt(val))
         IN  [ value |-> Shr64(val, un, ub), bits_used |-> Add64(used, un),
               unary |-> un, source |-> at, fetched |-> << >>,
               undefined |-> FALSE ]

UnZigZagNoShift(x, un, ub) == ToNum(x \cup Shl64({0}, un, ub))

\* (x >> 1) | (1UL << unary)
UnZigZag(x, un, ub) == ToNum(Shr(x, 1) \cup Shl64({0}, un, ub))

\* step 2, lines 125-142: the zig-zag encoded length of the integer
ReadLengthField(val, used, un, at, mem, cap, g, ub) ==
  IF Gt64(Add64(Add64(used, un), One), WordBits)
    THEN LET over    == Sub64(un, Sub64(N64, used))
             binary0 == Shl64(val, over, ub)
             word    == ReadWord(mem, cap, at, g)
             extra   == bextr(word, Add64(over, One))
             used1   == Add64(over, One)
         IN  [ binary |-> UnZigZag(binary0 \cup extra, un, ub),
               value |-> Shr64(word, used1, ub), bits_used |-> used1,
               source |-> at + 1, fetched |-> << at >>,
               undefined |-> \/ Undefined(over, WordBits)
                             \/ Undefined(used1, WordBits)
                             \/ Undefined(un, WordBits) ]
    ELSE LET before == bextr(val, Add64(un, One))
         IN  [ binary |-> UnZigZag(before, un, ub),
               value |-> Shr64(val, Add64(un, One), ub),
               bits_used |-> Add64(Add64(used, un), One),
               source |-> at, fetched |-> << >>,
               undefined |-> Undefined(Add64(un, One), WordBits) ]

\* step 3, lines 147-160: the binary value that is encoded
ReadValueField(val, used, binary, at, mem, cap, g, ub) ==
  IF Gt64(Add64(used, binary), WordBits)
    THEN LET over     == Sub64(binary, Sub64(N64, used))
             high     == Shl64(val, over, ub)
             word     == ReadWord(mem, cap, at, g)
             low_bits == bextr(word, over)
         IN  [ integer |-> Integer(Integer(high) \cup low_bits
                                     \cup Shl32One(Sub64(binary, One), ub)),
               assignments |-> 2,
               value |-> Shr64(word, over, ub), bits_used |-> over,
               source |-> at + 1, fetched |-> << at >>,
               undefined |-> \/ Undefined(over, WordBits)
                             \/ Undefined(Sub64(binary, One), 32) ]
    ELSE [ integer |-> Integer(bextr(val, binary)
                                 \cup Shl32One(Sub64(binary, One), ub)),
           assignments |-> 1,
           value |-> Shr64(val, Sub64(binary, One), ub),
           bits_used |-> Sub64(Add64(used, binary), One),
           source |-> at, fetched |-> << >>,
           undefined |-> Undefined(Sub64(binary, One), 32) ]

\* one iteration of the loop body, lines 103-160
DecodeBody(val, used, at, mem, cap, g, ub) ==
  LET s1 == ScanUnary(val, used, at, mem, cap, g, ub)
      s2 == ReadLengthField(s1.value, s1.bits_used, s1.unary, s1.source,
                            mem, cap, g, ub)
      s3 == ReadValueField(s2.value, s2.bits_used, s2.binary, s2.source,
                           mem, cap, g, ub)
  IN  [ unary |-> s1.unary, value |-> s3.value, bits_used |-> s3.bits_used,
        source |-> s3.source, integer |-> s3.integer,
        assignments |-> s3.assignments,
        fetched |-> s1.fetched \o s2.fetched \o s3.fetched,
        undefined |-> s1.undefined \/ s2.undefined \/ s3.undefined ]

\* the contents memory outside the buffer can have in a step that fetches
\* the words ws: unknown until the first such read, the same from then on
GarbageIn(ws, cap) ==
  IF garbage # "unread" THEN {garbage}
  ELSE IF \A w \in ws : Allocated(w, cap) THEN {"unread"}
  ELSE Garbage

\* what an undefined shift can do in a step: open until the first one is
\* executed, the same from then on
BuildIn(undefined) ==
  IF build # "unmet" THEN {build}
  ELSE IF undefined THEN UBChoices
  ELSE {"unmet"}

\* uint64_t value = *source, before the loop
DecodeBegin ==
  /\ pc = "encoded"
  /\ \E k \in 0 .. (Len(sequence) + 1) :
       integers_to_decode' = k
  /\ \E g \in GarbageIn({0}, encoded_buffer_length) :
       /\ garbage' = g
       /\ value' = ReadWord(encoded, encoded_buffer_length, 0, g)
  /\ source_length' = encoded_length
  /\ source' = 0
  /\ fetched' = << 0 >>
  /\ bits_used' = Nat64(0)
  /\ unary' = Nat64(0)
  /\ decoded' = 0
  /\ out' = << >>
  /\ stores' = << >>
  /\ pc' = "decode"
  /\ UNCHANGED << sequence, encoded_buffer_length, encoded, build, total >>
  /\ UNCHANGED encVars
  /\ UNCHANGED << calls, accessed, compute >>

\* total++ on the function-static uint32_t
NextTotal(t) == (t + 1) % Pow2(30)

LoopContinuesOnceMore(at, count) == at <= count

\* the loop condition, decoded < end with end = decoded + integers_to_decode
LoopContinues(at, count) == at < count

\* one iteration of the loop: one integer
DecodeInteger ==
  /\ pc = "decode"
  /\ LoopContinues(decoded, integers_to_decode)
  /\ LET Body(g, ub) == DecodeBody(value, bits_used, source, encoded,
                                   encoded_buffer_length, g, ub)
         Fetches == UNION { { r.fetched[i] : i \in 1 .. Len(r.fetched) } :
                            r \in { Body(garbage, ub) :
                                       ub \in BuildIn(Body(garbage, "mask").undefined) } }
     IN  \E g \in GarbageIn(Fetches, encoded_buffer_length) :
           \E ub \in BuildIn(Body(g, "mask").undefined) :
             \E r \in { Body(g, ub) } :
               /\ garbage' = g
               /\ build' = ub
               /\ unary' = r.unary
               /\ value' = r.value
               /\ bits_used' = r.bits_used
               /\ source' = r.source
               /\ fetched' = fetched \o r.fetched
               /\ out' = (decoded :> r.integer) @@ out
               /\ stores' = stores \o [ i \in 1 .. r.assignments |-> decoded ]
  /\ decoded' = decoded + 1
  /\ total' = NextTotal(total)
  /\ UNCHANGED << pc, sequence, encoded_buffer_length, encoded,
                  integers_to_decode, source_length >>
  /\ UNCHANGED encVars
  /\ UNCHANGED << calls, accessed, compute >>

\* decoded == end: the loop is left and decode returns
DecodeReturn ==
  /\ pc = "decode"
  /\ ~LoopContinues(decoded, integers_to_decode)
  /\ pc' = "done"
  /\ UNCHANGED << sequence, encoded_buffer_length, encoded >>
  /\ UNCHANGED encVars
  /\ UNCHANGED decVars
  /\ UNCHANGED << calls, accessed, compute >>

Next ==
  \/ EncodeBegin
  \/ EncodeInteger
  \/ EncodeReturn
  \/ DecodeBegin
  \/ DecodeInteger
  \/ DecodeReturn

Spec == Init /\ [][Next]_vars

(***************************************************************************)
(* Two calls of decode running at once, each on buffers of its own.        *)
(***************************************************************************)
\* longest sequence a concurrent call decodes
MaxThreadLen == 2

Threads == {1, 2}

\* the sequences whose streams the threads decode: 1s and 3s
ThreadSequences == SeqsUpTo({ {0}, {0, 1} }, MaxThreadLen)

\* encode's loop over a whole sequence, from cursor at on memory mem
RECURSIVE EncodeFrom(_, _, _, _)
EncodeFrom(S, i, at, mem) ==
  IF i > Len(S) THEN mem
  ELSE LET r == EncodeBody(S[i], at, mem)
       IN  EncodeFrom(S, i + 1, r.into, r.encoded)

\* the source buffer of a thread: what encode leaves in a zeroed buffer
StreamIn(S) == EncodeFrom(S, 1, 0, {})

\* the memory locations of the calls: the function-static counter of decode,
\* and each thread's own source words and destination slots
TotalLocation == << "total" >>

SourceLocation(t, w) == << "source", t, w >>

DecodedLocation(t, slot) == << "decoded", t, slot >>

InitThreads ==
  /\ CodecStart(<< >>, CapSmall)
  /\ NoCompute
  /\ calls \in [ Threads ->
       { [ pc |-> "call", sequence |-> S, integers_to_decode |-> Len(S),
           value |-> {}, bits_used |-> Nat64(0), unary |-> Nat64(0), source |-> 0,
           decoded |-> 0, out |-> << >>, loaded |-> 0 ] : S \in ThreadSequences } ]
  /\ accessed = [ t \in Threads |-> [ reads |-> {}, writes |-> {} ] ]

Read(t, locations) ==
  [ accessed EXCEPT ![t].reads = @ \cup locations ]

ReadWrite(t, rd, wr) ==
  [ accessed EXCEPT ![t].reads = @ \cup rd, ![t].writes = @ \cup wr ]

\* uint64_t value = *source, before the loop
ThreadBegin(t) ==
  /\ calls[t].pc = "call"
  /\ calls' = [ calls EXCEPT ![t].pc = "loop",
                             ![t].value = ReadWord(StreamIn(calls[t].sequence),
                                                   CapAmple, 0, garbage) ]
  /\ accessed' = Read(t, { SourceLocation(t, 0) })
  /\ UNCHANGED codecVars
  /\ UNCHANGED << garbage, build, compute, total >>

\* if (total == 15) and the load of total++, lines 96-101
ThreadLoadTotal(t) ==
  /\ calls[t].pc = "loop"
  /\ LoopContinues(calls[t].decoded, calls[t].integers_to_decode)
  /\ calls' = [ calls EXCEPT ![t].pc = "count", ![t].loaded = total ]
  /\ accessed' = Read(t, { TotalLocation })
  /\ UNCHANGED codecVars
  /\ UNCHANGED << garbage, build, compute, total >>

\* the store of total++, line 101
ThreadStoreTotal(t) ==
  /\ calls[t].pc = "count"
  /\ total' = NextTotal(calls[t].loaded)
  /\ calls' = [ calls EXCEPT ![t].pc = "body" ]
  /\ accessed' = ReadWrite(t, {}, { TotalLocation })
  /\ UNCHANGED codecVars
  /\ UNCHANGED << garbage, build, compute >>

\* the rest of the iteration, lines 103-160
ThreadDecodeInteger(t) ==
  /\ calls[t].pc = "body"
  /\ \E r \in { DecodeBody(calls[t].value, calls[t].bits_used, calls[t].source,
                           StreamIn(calls[t].sequence), CapAmple, garbage, build) } :
       /\ calls' = [ calls EXCEPT ![t].pc = "loop",
                                  ![t].value = r.value,
                                  ![t].bits_used = r.bits_used,
                                  ![t].unary = r.unary,
                                  ![t].source = r.source,
                                  ![t].out = (calls[t].decoded :> r.integer) @@ @,
                                  ![t].decoded = @ + 1 ]
       /\ accessed' = ReadWrite(t,
                        { SourceLocation(t, r.fetched[i]) : i \in 1 .. Len(r.fetched) },
                        { DecodedLocation(t, calls[t].decoded) })
  /\ UNCHANGED codecVars
  /\ UNCHANGED << garbage, build, compute, total >>

\* decoded == end: the call returns
ThreadReturn(t) ==
  /\ calls[t].pc = "loop"
  /\ ~LoopContinues(calls[t].decoded, calls[t].integers_to_decode)
  /\ calls' = [ calls EXCEPT ![t].pc = "done" ]
  /\ UNCHANGED accessed
  /\ UNCHANGED codecVars
  /\ UNCHANGED << garbage, build, compute, total >>

NextThreads ==
  \E t \in Threads :
    \/ ThreadBegin(t)
    \/ ThreadLoadTotal(t)
    \/ ThreadStoreTotal(t)
    \/ ThreadDecodeInteger(t)
    \/ ThreadReturn(t)

SpecThreads == InitThreads /\ [][NextThreads]_vars

\* decode run alone on the stream of S: its loop from iteration j on
RECURSIVE DecodeFrom(_, _, _, _, _, _, _)
DecodeFrom(mem, count, j, val, used, at, result) ==
  IF ~LoopContinues(j, count) THEN result
  ELSE LET r == DecodeBody(val, used, at, mem, CapAmple, "clear", "mask")
       IN  DecodeFrom(mem, count, j + 1, r.value, r.bits_used, r.source,
                      (j :> r.integer) @@ result)

DecodeAlone(S) ==
  DecodeFrom(StreamIn(S), Len(S), 0, ReadWord(StreamIn(S), CapAmple, 0, "clear"),
             Nat64(0), 0, << >>)

(***************************************************************************)
(* evaluate_mean_reciprocal_rank::compute                                  *)
(***************************************************************************)
\* longest results list, and largest depth short of "no limit"
MaxResults == 3

MaxDepth == 4

Queries == {"1", "2"}

Documents == {"AP880216-0139", "AP880217-0026"}

\* the default depth, std::numeric_limits<size_t>::max(), as a depth no list reaches
NoLimit == MaxResults + MaxDepth + 1

\* evaluate::find(query_id, document): the judgment, whose score is 0 for a
\* document that is not relevant to the query
find(assessments, query_id, result) == [ score |-> assessments[<< query_id, result >>] ]

InitCompute ==
  /\ CodecStart(<< >>, CapSmall)
  /\ NoThreads
  /\ \E q \in Queries, list \in SeqsUpTo(Documents, MaxResults),
        d \in (0 .. MaxDepth) \cup {NoLimit},
        judged \in [ Queries \X Documents -> {0, 1} ] :
       compute = [ pc |-> "call", assessments |-> judged, query_id |-> q,
                   results_list |-> list, depth |-> d, which |-> 0, at |-> 0,
                   returned |-> << 0, 1 >> ]

\* size_t which = 1, and the range-for starts at the first result
ComputeBegin ==
  /\ compute.pc = "call"
  /\ compute' = [ compute EXCEPT !.pc = "loop", !.which = 1, !.at = 1 ]
  /\ UNCHANGED codecVars
  /\ UNCHANGED << garbage, build, calls, accessed, total >>

\* which > depth, the test that leaves the loop at line 32
PastDepth(which, depth) == which > depth

\* one iteration of the loop, lines 23-34: return 1.0 / which for a relevant
\* result, else count it and break past the depth
ComputeResult ==
  /\ compute.pc = "loop"
  /\ compute.at <= Len(compute.results_list)
  /\ LET assessment == find(compute.assessments, compute.query_id,
                            compute.results_list[compute.at])
     IN  IF assessment.score # 0
           THEN compute' = [ compute EXCEPT !.pc = "returned",
                                            !.returned = << 1, compute.which >> ]
           ELSE IF PastDepth(compute.which + 1, compute.depth)
             THEN compute' = [ compute EXCEPT !.pc = "break", !.which = @ + 1 ]
             ELSE compute' = [ compute EXCEPT !.which = @ + 1, !.at = @ + 1 ]
  /\ UNCHANGED codecVars
  /\ UNCHANGED << garbage, build, calls, accessed, total >>

\* return 0, after the break or at the end of the list
ComputeReturnZero ==
  /\ \/ compute.pc = "break"
     \/ compute.pc = "loop" /\ compute.at > Len(compute.results_list)
  /\ compute' = [ compute EXCEPT !.pc = "returned", !.returned = << 0, 1 >> ]
  /\ UNCHANGED codecVars
  /\ UNCHANGED << garbage, build, calls, accessed, total >>

NextCompute ==
  \/ ComputeBegin
  \/ ComputeResult
  \/ ComputeReturnZero

SpecCompute == InitCompute /\ [][NextCompute]_vars

(***************************************************************************)
(* The format of the data model: bit lengths, codewords and streams,       *)
(* computed from the integers themselves.                                  *)
(***************************************************************************)
\* every integer of the sequence is in the domain [1, 2^63 - 1]
Positive(S) == \A i \in 1 .. Len(S) : S[i] # {} /\ 63 \notin S[i]

\* floor(log2 n) of an integer n >= 1, and L = floor(log2 N) + 1 of a word N
Log2(n) == Max(FromNat(n))

LengthOf(N) == Max(N) + 1

\* len(N) = 2 floor(log2 L) + L
CodewordBits(N) == 2 * Log2(LengthOf(N)) + LengthOf(N)

\* the bit offset of the codeword after the first j integers of S
RECURSIVE Offset(_, _)
Offset(S, j) == IF j = 0 THEN 0 ELSE Offset(S, j - 1) + CodewordBits(S[j])

\* the set bits of N's codeword, from its first bit: u zero bits, the length
\* field (a 1, then the low u bits of L), the L - 1 low bits of N
Codeword(N) ==
  LET L == LengthOf(N)
      u == Log2(L)
  IN  {u} \cup { u + 1 + j : j \in { b \in FromNat(L) : b < u } }
          \cup { 2 * u + 1 + j : j \in { b \in N : b < L - 1 } }

\* the set bits of the stream of the first j integers of S
StreamOf(S, j) == UNION { { Offset(S, i - 1) + b : b \in Codeword(S[i]) } : i \in 1 .. j }

\* a field of bits [from, to) that lies in two 64-bit words
Spans(from, to) == from < to /\ from \div WordBits # (to - 1) \div WordBits

\* codeword i of S starts at offset 63, 64 or 65, or one of its three fields
\* spans two words
Crosses(S, i) ==
  LET o == Offset(S, i - 1)
      L == LengthOf(S[i])
      u == Log2(L)
  IN  \/ o \in {63, 64, 65}
      \/ Spans(o, o + u)
      \/ Spans(o + u, o + 2 * u + 1)
      \/ Spans(o + 2 * u + 1, o + 2 * u + L)

\* encode has returned
Encoded == pc \in {"encoded", "decode", "done"}

\* a round trip: an in-domain sequence, an ample zeroed buffer, and decode
\* asked for as many integers as were encoded has returned
RoundTripDone ==
  /\ pc = "done"
  /\ Positive(sequence)
  /\ encoded_buffer_length = CapAmple
  /\ integers_to_decode = Len(sequence)

(***************************************************************************)
(* C1. Round-trip law: decode(encode(S), |S|) is S, element for element,   *)
(* for every sequence S of integers of [1, 2^63 - 1].                      *)
(***************************************************************************)
RoundTripLaw ==
  RoundTripDone => \A i \in 1 .. Len(sequence) : out[i - 1] = sequence[i]

(***************************************************************************)
(* C2. Boundary crossing: a sequence with a codeword that starts at bit    *)
(* offset 63, 64 or 65, or has a field in two 64-bit words, still round    *)
(* trips exactly.                                                          *)
(***************************************************************************)
BoundaryCrossing ==
  (RoundTripDone /\ \E i \in 1 .. Len(sequence) : Crosses(sequence, i))
    => \A i \in 1 .. Len(sequence) : out[i - 1] = sequence[i]

(***************************************************************************)
(* C3. Codeword layout: after encode has written the first j integers the  *)
(* stream holds exactly their codewords back to back, and every other bit  *)
(* is 0.                                                                   *)
(***************************************************************************)
CodewordLayout ==
  (pc # "start" /\ Positive(sequence) /\ encoded_buffer_length = CapAmple)
    => encoded = StreamOf(sequence, value_at - 1)

(***************************************************************************)
(* C4. Encoded length: the write cursor advances by len(N) bits for each   *)
(* integer N, and encode returns the total rounded up to bytes (0 for the  *)
(* empty sequence).                                                        *)
(***************************************************************************)
EncodedLength ==
  Positive(sequence) =>
    /\ pc # "start" => into = Offset(sequence, value_at - 1)
    /\ Encoded => encoded_length = (Offset(sequence, Len(sequence)) + 7) \div 8

EncodedLengthWitness ==
  /\ Encoded
  /\ Positive(sequence)
  /\ Len(sequence) >= 2
  /\ \E i \in 1 .. Len(sequence) : sequence[i] = Int63Bit
  /\ encoded_length > 9

(***************************************************************************)
(* C5. Zero is rejected: encode never returns a byte count for a sequence  *)
(* that holds a 0.                                                         *)
(***************************************************************************)
ZeroIsRejected ==
  (\E i \in 1 .. Len(sequence) : sequence[i] = {}) => ~Encoded

(***************************************************************************)
(* C6. BufferTooSmall: with a capacity below the encoded length, encode    *)
(* touches no byte at an index >= the capacity and does not return a byte  *)
(* count.                                                                  *)
(***************************************************************************)
BufferTooSmall ==
  ( /\ Positive(sequence)
    /\ 8 * encoded_buffer_length < Offset(sequence, Len(sequence)) )
    => /\ \A b \in written : b < encoded_buffer_length
       /\ ~Encoded

(***************************************************************************)
(* C7. TruncatedStream: every word decode fetches lies wholly inside       *)
(* source_buffer[0 .. source_length).                                      *)
(***************************************************************************)
TruncatedStream ==
  \A i \in 1 .. Len(fetched) : 8 * (fetched[i] + 1) <= source_length

(***************************************************************************)
(* C9. Decode emits exactly the requested count: it returns after          *)
(* integers_to_decode iterations, having written slots 0 .. k-1 once each  *)
(* in increasing order.                                                    *)
(***************************************************************************)
DecodeWritesOnce ==
  pc = "done" => stores = [ i \in 1 .. integers_to_decode |-> i - 1 ]

\* C9 as amended: decode returns after exactly integers_to_decode iterations;
\* each iteration assigns the next slot, once or (when the value field is
\* taken from two words) twice, and no slot at index >= integers_to_decode
DecodeEmitsCount ==
  pc \in {"decode", "done"} =>
    /\ decoded <= integers_to_decode
    /\ pc = "done" => decoded = integers_to_decode
    /\ total = decoded
    /\ DOMAIN out = 0 .. (decoded - 1)
    /\ \A j \in 0 .. (decoded - 1) :
         Cardinality({ i \in 1 .. Len(stores) : stores[i] = j }) \in {1, 2}
    /\ \A i \in 1 .. Len(stores) : stores[i] < decoded
    /\ \A i \in 1 .. (Len(stores) - 1) : stores[i] <= stores[i + 1]

DecodeEmitsCountWitness ==
  /\ pc = "done"
  /\ integers_to_decode >= 2
  /\ Len(stores) > integers_to_decode

(***************************************************************************)
(* C8. No shared state under concurrency: two calls of decode on disjoint  *)
(* buffers access no common memory location, and each call's output is    *)
(* its output when run alone.                                              *)
(***************************************************************************)
NoSharedState ==
  /\ \A t \in DOMAIN accessed, u \in DOMAIN accessed :
       t # u => (accessed[t].reads \cup accessed[t].writes)
                  \cap (accessed[u].reads \cup accessed[u].writes) = {}
  /\ \A t \in DOMAIN calls :
       calls[t].pc = "done" => calls[t].out = DecodeAlone(calls[t].sequence)

(***************************************************************************)
(* C10. Mean reciprocal rank: compute returns 1/r for the smallest rank r, *)
(* r <= depth and r <= length of the list, whose result has a non-zero     *)
(* score for the query, and 0 when there is none.                          *)
(***************************************************************************)
\* the ranks within the depth whose result is relevant to the query
RelevantRanks(c) ==
  { r \in 1 .. Len(c.results_list) :
      /\ r <= c.depth
      /\ c.assessments[<< c.query_id, c.results_list[r] >>] # 0 }

MeanReciprocalRank ==
  compute.pc = "returned" =>
    IF RelevantRanks(compute) = {}
      THEN compute.returned = << 0, 1 >>
      ELSE compute.returned = << 1, Min(RelevantRanks(compute)) >>

(***************************************************************************)
(* C11. Decoder cursor invariant: on a valid stream, at the start of every *)
(* decode iteration, after j integers were emitted, the words loaded so    *)
(* far are word 0, word 1, word 2, ... (none twice, none skipped), the     *)
(* read position 64 * (index of the current word) + bits_used is the sum   *)
(* of the bit lengths of the first j codewords, and value is the current   *)
(* word shifted right by bits_used.                                        *)
(***************************************************************************)
\* decode runs on the stream of an in-domain sequence, laid out as the data
\* model lays it out, in an ample buffer
ValidStream ==
  /\ pc \in {"decode", "done"}
  /\ Positive(sequence)
  /\ encoded_buffer_length = CapAmple
  /\ encoded = StreamOf(sequence, Len(sequence))

\* the index of the word loaded last
CurrentWord == fetched[Len(fetched)]

DecoderCursor ==
  (ValidStream /\ decoded <= Len(sequence)) =>
    /\ fetched = [ i \in 1 .. Len(fetched) |-> i - 1 ]
    /\ \E q \in 0 .. WordBits :
         /\ bits_used = Nat64(q)
         /\ WordBits * CurrentWord + q = Offset(sequence, decoded)
         /\ value = Shr(ReadWord(encoded, encoded_buffer_length, CurrentWord, "clear"), q)

(***************************************************************************)
(* C12. Single-word round trip: a sequence of integers of [1, 2^31 - 1]    *)
(* whose codewords take at most 63 bits, encoded into a buffer of at least *)
(* 8 bytes, decodes to itself, and decode takes none of its three refill   *)
(* branches: the only word it loads is word 0, before the loop.            *)
(***************************************************************************)
\* the integers of S are in [1, 2^31 - 1] and their codewords fit in 63 bits
SingleWord(S) ==
  /\ Positive(S)
  /\ \A i \in 1 .. Len(S) : \A b \in S[i] : b <= 30
  /\ Offset(S, Len(S)) <= WordBits - 1

SingleWordRoundTrip ==
  ( /\ pc \in {"decode", "done"}
    /\ SingleWord(sequence)
    /\ encoded_buffer_length >= CapWord
    /\ integers_to_decode = Len(sequence) )
    => /\ fetched = << 0 >>
       /\ garbage = "unread"
       /\ build = "unmet"
       /\ DOMAIN out = 0 .. (decoded - 1)
       /\ \A j \in 0 .. (decoded - 1) : out[j] = sequence[j + 1]
       /\ pc = "done" => decoded = Len(sequence)

SingleWordRoundTripWitness ==
  /\ pc = "done"
  /\ SingleWord(sequence)
  /\ encoded_buffer_length = CapWord
  /\ integers_to_decode = Len(sequence)
  /\ Len(sequence) >= 3
  /\ Offset(sequence, Len(sequence)) = WordBits - 1

(***************************************************************************)
(* C13. Encoder stays inside an adequate buffer: when the capacity is at   *)
(* least the byte length encode returns for the sequence, every byte of    *)
(* the destination that encode reads or writes (the zero fill and each     *)
(* 64-bit OR-write at byte into / 8) has an index below the capacity.      *)
(***************************************************************************)
EncoderInBounds ==
  ( /\ pc # "start"
    /\ Positive(sequence)
    /\ encoded_buffer_length >= BytesUsed(Offset(sequence, Len(sequence))) )
    => \A b \in written : b < encoded_buffer_length

====
